---- MODULE Spec2Model ----
(***************************************************************************)
(* Model of the Fluent Bit monitoring client (client.go): one call of one  *)
(* of the four public operations BuildInfo, UpTime, Metrics and            *)
(* StorageMetrics, down to the retry loop of fetchJSON, the ticker, the    *)
(* context the loop selects on, the HTTP round trip and the JSON decoding  *)
(* of the accepted response into the caller's result variable.             *)
(*                                                                         *)
(* Time is counted in milliseconds and advances in steps of Quantum.       *)
(* A second specification, ConcSpec, runs two calls side by side on one    *)
(* client.                                                                 *)
(***************************************************************************)
EXTENDS Integers, Sequences, FiniteSets, TLC

\* const DefaultHTTPRetryTimeout = 3 * time.Second, in milliseconds.
DefaultHTTPRetryTimeout == 3000

\* const DefaultHTTPRetryBackoff = 150 * time.Millisecond, in milliseconds.
DefaultHTTPRetryBackoff == 150

\* http.StatusNotFound and http.StatusBadRequest as fetchJSON uses them.
StatusNotFound == 404

StatusBadRequest == 400

\* The steps the clock takes in one polling interval (a bound of the model).
StepsPerInterval == 1

\* The step by which the clock advances, in milliseconds.
Quantum == DefaultHTTPRetryBackoff \div StepsPerInterval

\* The request counter saturates at this value (a bound of the model).
MaxReq == 2

\* The count of ticks saturates at this value (a bound of the model).
MaxTicks == 3

\* A timer that is not armed.
NoDeadline == 0 - 1

Min(a, b) == IF a <= b THEN a ELSE b

-----------------------------------------------------------------------------
(* The result shapes: the struct types of client.go as type descriptors.   *)
(* A struct is a sequence of fields, each with its Go name, its json tag   *)
(* and its type.                                                           *)

TString == [kind |-> "string"]

TUint64 == [kind |-> "uint64"]

TBool == [kind |-> "bool"]

TStruct(fields) == [kind |-> "struct", fields |-> fields]

TMap(elem) == [kind |-> "map", elem |-> elem]

TSlice(elem) == [kind |-> "slice", elem |-> elem]

Field(name, tag, type) == [name |-> name, tag |-> tag, type |-> type]

BuildInfoT ==
    TStruct(<< Field("FluentBit", "fluent-bit",
                 TStruct(<< Field("Version", "version", TString),
                            Field("Edition", "edition", TString),
                            Field("Flags", "flags", TSlice(TString)) >>)) >>)

UpTimeT ==
    TStruct(<< Field("UpTimeSec", "uptime_sec", TUint64),
               Field("UpTimeHr", "uptime_hr", TString) >>)

MetricInputT ==
    TStruct(<< Field("Records", "records", TUint64),
               Field("Bytes", "bytes", TUint64) >>)

MetricOutputT ==
    TStruct(<< Field("ProcRecords", "proc_records", TUint64),
               Field("ProcBytes", "proc_bytes", TUint64),
               Field("Errors", "errors", TUint64),
               Field("Retries", "retries", TUint64),
               Field("RetriesFailed", "retries_failed", TUint64) >>)

MetricsT ==
    TStruct(<< Field("Input", "input", TMap(MetricInputT)),
               Field("Output", "output", TMap(MetricOutputT)) >>)

PluginStorageT ==
    TStruct(<< Field("Status", "status",
                 TStruct(<< Field("Overlimit", "overlimit", TBool),
                            Field("MemSize", "mem_size", TString),
                            Field("MemLimit", "mem_limit", TString) >>)),
               Field("Chunks", "chunks",
                 TStruct(<< Field("Total", "total", TUint64),
                            Field("Up", "up", TUint64),
                            Field("Down", "down", TUint64),
                            Field("Busy", "busy", TUint64),
                            Field("BusySize", "busy_size", TString) >>)) >>)

StorageMetricsT ==
    TStruct(<< Field("StorageLayer", "storage_layer",
                 TStruct(<< Field("Chunks", "chunks",
                   TStruct(<< Field("TotalChunks", "total_chunks", TUint64),
                              Field("MemChunks", "mem_chunks", TUint64),
                              Field("FsChunks", "fs_chunks", TUint64),
                              Field("FsChunksUp", "fs_chunks_up", TUint64),
                              Field("FsChunksDown", "fs_chunks_down", TUint64) >>)) >>)),
               Field("InputChunks", "input_chunks", TMap(PluginStorageT)) >>)

\* The four public operations.
Ops == {"BuildInfo", "UpTime", "Metrics", "StorageMetrics"}

\* The result type each operation declares (var info BuildInfo, ...).
ResultType(o) ==
    CASE o = "BuildInfo" -> BuildInfoT
      [] o = "UpTime" -> UpTimeT
      [] o = "Metrics" -> MetricsT
      [] o = "StorageMetrics" -> StorageMetricsT

\* The endpoint path each operation passes to fetchJSON.
Endpoint(o) ==
    CASE o = "BuildInfo" -> "/"
      [] o = "UpTime" -> "/api/v1/uptime"
      [] o = "Metrics" -> "/api/v1/metrics"
      [] o = "StorageMetrics" -> "/api/v1/storage"

\* No operation wraps the caller's context.
OwnTimeoutMissing(o) == NoDeadline

\* Every operation wraps the caller's context.
OwnTimeoutAll(o) == DefaultHTTPRetryTimeout

\* The timeout an operation adds to the caller's context: only
\* StorageMetrics wraps it in context.WithTimeout.
OwnTimeout(o) ==
    IF o = "StorageMetrics" THEN DefaultHTTPRetryTimeout ELSE NoDeadline

-----------------------------------------------------------------------------
(* Go values.  A struct is a record over its Go field names, a map is a    *)
(* function over its keys (the nil map is the empty function), a slice is  *)
(* a sequence.                                                             *)

EmptyMap == [key \in {} |-> 0]

MapSet(m, key, v) == (key :> v) @@ m

\* The field of a struct type that has the given Go name.
FieldNamed(fields, name) ==
    fields[CHOOSE i \in 1..Len(fields) : fields[i].name = name]

RECURSIVE Zero(_)
\* The zero value of a type, as `var info BuildInfo` leaves it.
Zero(t) ==
    CASE t.kind = "string" -> ""
      [] t.kind = "uint64" -> 0
      [] t.kind = "bool" -> FALSE
      [] t.kind = "map" -> EmptyMap
      [] t.kind = "slice" -> << >>
      [] t.kind = "struct" ->
           [name \in {t.fields[i].name : i \in 1..Len(t.fields)} |->
              Zero(FieldNamed(t.fields, name).type)]

-----------------------------------------------------------------------------
(* JSON documents.  A response body is the text on the wire; Parse gives   *)
(* the JSON value the decoder's scanner reads from it, or a syntax error.  *)
(* An object is the sequence of its members in document order.             *)

JNull == [k |-> "null"]

JStr(s) == [k |-> "str", s |-> s]

JNum(n) == [k |-> "num", n |-> n]

JBool(b) == [k |-> "bool", b |-> b]

JArr(a) == [k |-> "arr", a |-> a]

JObj(m) == [k |-> "obj", m |-> m]

JSyntaxError == [k |-> "invalid", err |-> "SyntaxError"]

\* Bodies that no operation's schema describes.

BodyNotFound == "404 page not found"

BodyEmptyObject == "{}"


BodyTruncated == "{\"uptime_sec\": 5, \"upt"

\* Bodies matching the documented schema of each endpoint.
BodyBuildInfo ==
    "{\"fluent-bit\":{\"version\":\"1.8.0\",\"edition\":\"Community\",\"flags\":[\"FLB_HAVE_TLS\",\"FLB_HAVE_HTTP_SERVER\"]}}"

BodyUpTime == "{\"uptime_sec\": 5, \"uptime_hr\": \"5s\"}"

BodyMetrics ==
    "{\"input\":{\"cpu.0\":{\"records\":10,\"bytes\":200}},\"output\":{\"stdout.0\":{\"proc_records\":10,\"proc_bytes\":200,\"errors\":0,\"retries\":0,\"retries_failed\":0}}}"

BodyStorage ==
    "{\"storage_layer\":{\"chunks\":{\"total_chunks\":3,\"mem_chunks\":2,\"fs_chunks\":1,\"fs_chunks_up\":1,\"fs_chunks_down\":0}},\"input_chunks\":{\"cpu.0\":{\"status\":{\"overlimit\":true,\"mem_size\":\"1.2K\",\"mem_limit\":\"0b\"},\"chunks\":{\"total\":3,\"up\":2,\"down\":1,\"busy\":1,\"busy_size\":\"1.2K\"}}}}"

\* Valid JSON that departs from the schema: other letter case and an
\* unknown member; values of the wrong JSON type.
BodyUpTimeFolded == "{\"Uptime_Sec\": 7, \"extra\": [true], \"UPTIME_HR\": \"7s\"}"

BodyUpTimeWrongType == "{\"uptime_sec\": \"5\", \"uptime_hr\": \"5s\"}"


BodyMetricsWrongType == "{\"input\":[],\"output\":{\"stdout.0\":{\"errors\":\"none\",\"retries\":2}}}"

BodyBuildInfoWrongType == "{\"fluent-bit\":{\"version\":18,\"edition\":\"Community\",\"flags\":null}}"

BodyStorageWrongType == "{\"storage_layer\":{\"chunks\":7},\"input_chunks\":{\"cpu.0\":{\"status\":{\"overlimit\":\"no\",\"mem_size\":\"1K\"}}}}"

\* What the JSON scanner reads from a body.
Parse(body) ==
    CASE body = BodyNotFound -> JSyntaxError
      [] body = BodyTruncated -> JSyntaxError
      [] body = BodyEmptyObject -> JObj(<< >>)
      [] body = BodyBuildInfo ->
           JObj(<< <<"fluent-bit",
                     JObj(<< <<"version", JStr("1.8.0")>>,
                             <<"edition", JStr("Community")>>,
                             <<"flags", JArr(<< JStr("FLB_HAVE_TLS"),
                                                JStr("FLB_HAVE_HTTP_SERVER") >>)>> >>)>> >>)
      [] body = BodyUpTime ->
           JObj(<< <<"uptime_sec", JNum(5)>>, <<"uptime_hr", JStr("5s")>> >>)
      [] body = BodyMetrics ->
           JObj(<< <<"input",
                     JObj(<< <<"cpu.0", JObj(<< <<"records", JNum(10)>>,
                                                <<"bytes", JNum(200)>> >>)>> >>)>>,
                   <<"output",
                     JObj(<< <<"stdout.0", JObj(<< <<"proc_records", JNum(10)>>,
                                                   <<"proc_bytes", JNum(200)>>,
                                                   <<"errors", JNum(0)>>,
                                                   <<"retries", JNum(0)>>,
                                                   <<"retries_failed", JNum(0)>> >>)>> >>)>> >>)
      [] body = BodyStorage ->
           JObj(<< <<"storage_layer",
                     JObj(<< <<"chunks", JObj(<< <<"total_chunks", JNum(3)>>,
                                                 <<"mem_chunks", JNum(2)>>,
                                                 <<"fs_chunks", JNum(1)>>,
                                                 <<"fs_chunks_up", JNum(1)>>,
                                                 <<"fs_chunks_down", JNum(0)>> >>)>> >>)>>,
                   <<"input_chunks",
                     JObj(<< <<"cpu.0",
                               JObj(<< <<"status", JObj(<< <<"overlimit", JBool(TRUE)>>,
                                                           <<"mem_size", JStr("1.2K")>>,
                                                           <<"mem_limit", JStr("0b")>> >>)>>,
                                       <<"chunks", JObj(<< <<"total", JNum(3)>>,
                                                           <<"up", JNum(2)>>,
                                                           <<"down", JNum(1)>>,
                                                           <<"busy", JNum(1)>>,
                                                           <<"busy_size", JStr("1.2K")>> >>)>> >>)>> >>)>> >>)
      [] body = BodyUpTimeFolded ->
           JObj(<< <<"Uptime_Sec", JNum(7)>>,
                   <<"extra", JArr(<< JBool(TRUE) >>)>>,
                   <<"UPTIME_HR", JStr("7s")>> >>)
      [] body = BodyUpTimeWrongType ->
           JObj(<< <<"uptime_sec", JStr("5")>>, <<"uptime_hr", JStr("5s")>> >>)
      [] body = BodyMetricsWrongType ->
           JObj(<< <<"input", JArr(<< >>)>>,
                   <<"output",
                     JObj(<< <<"stdout.0", JObj(<< <<"errors", JStr("none")>>,
                                                   <<"retries", JNum(2)>> >>)>> >>)>> >>)
      [] body = BodyBuildInfoWrongType ->
           JObj(<< <<"fluent-bit",
                     JObj(<< <<"version", JNum(18)>>,
                             <<"edition", JStr("Community")>>,
                             <<"flags", JNull>> >>)>> >>)
      [] body = BodyStorageWrongType ->
           JObj(<< <<"storage_layer", JObj(<< <<"chunks", JNum(7)>> >>)>>,
                   <<"input_chunks",
                     JObj(<< <<"cpu.0",
                               JObj(<< <<"status", JObj(<< <<"overlimit", JStr("no")>>,
                                                           <<"mem_size", JStr("1K")>> >>)>> >>)>> >>)>> >>)
      [] OTHER -> JSyntaxError

\* The bodies an endpoint is tried with.
Bodies(o) ==
    {BodyEmptyObject, BodyTruncated} \cup
    ( CASE o = "BuildInfo" -> {BodyBuildInfo, BodyBuildInfoWrongType}
        [] o = "UpTime" -> {BodyUpTime, BodyUpTimeFolded, BodyUpTimeWrongType}
        [] o = "Metrics" -> {BodyMetrics, BodyMetricsWrongType}
        [] o = "StorageMetrics" -> {BodyStorage, BodyStorageWrongType} )

\* The document of an endpoint that matches its schema.
SchemaBody(o) ==
    CASE o = "BuildInfo" -> BodyBuildInfo
      [] o = "UpTime" -> BodyUpTime
      [] o = "Metrics" -> BodyMetrics
      [] o = "StorageMetrics" -> BodyStorage

-----------------------------------------------------------------------------
(* json.NewDecoder(resp.Body).Decode(ptr), as encoding/json decodes into   *)
(* the struct types above: members are matched to fields by json tag,      *)
(* exactly or else ignoring letter case; unknown members are skipped; a    *)
(* value of the wrong JSON type leaves its field alone, is remembered as   *)
(* the error to return, and decoding goes on; null clears maps and slices  *)
(* and leaves everything else alone.                                       *)

\* Lower-casing of the member names that occur in the bodies.
ToLower(key) ==
    CASE key = "Uptime_Sec" -> "uptime_sec"
      [] key = "UPTIME_HR" -> "uptime_hr"
      [] OTHER -> key

\* The index of the field a member name selects, 0 when there is none.
FieldIndex(fields, key) ==
    LET exact == {i \in 1..Len(fields) : fields[i].tag = key}
        fold == {i \in 1..Len(fields) : ToLower(fields[i].tag) = ToLower(key)}
    IN  IF exact # {} THEN CHOOSE i \in exact : \A j \in exact : i <= j
        ELSE IF fold # {} THEN CHOOSE i \in fold : \A j \in fold : i <= j
        ELSE 0

\* The first error is the one kept (decodeState.saveError).
FirstErr(a, b) == IF a # "nil" THEN a ELSE b

RECURSIVE DecodeValue(_, _, _)
RECURSIVE DecodeStruct(_, _, _)
RECURSIVE DecodeMap(_, _, _)
RECURSIVE DecodeArray(_, _)
RECURSIVE DecodeError(_, _)
RECURSIVE MembersError(_, _)
RECURSIVE ItemsError(_, _)

\* The Go value of type t that holds old, after JSON value j is decoded
\* into it.
DecodeValue(t, j, old) ==
    CASE j.k = "null" -> IF t.kind \in {"map", "slice"} THEN Zero(t) ELSE old
      [] j.k = "str" -> IF t.kind = "string" THEN j.s ELSE old
      [] j.k = "num" -> IF t.kind = "uint64" /\ j.n >= 0 THEN j.n ELSE old
      [] j.k = "bool" -> IF t.kind = "bool" THEN j.b ELSE old
      [] j.k = "arr" -> IF t.kind = "slice" THEN DecodeArray(t.elem, j.a) ELSE old
      [] j.k = "obj" ->
           CASE t.kind = "struct" -> DecodeStruct(t.fields, j.m, old)
             [] t.kind = "map" -> DecodeMap(t.elem, j.m, old)
             [] OTHER -> old

\* The members of an object, in order, into the fields of a struct.
DecodeStruct(fields, members, old) ==
    IF members = << >>
    THEN old
    ELSE DecodeStruct(fields, Tail(members),
           IF FieldIndex(fields, Head(members)[1]) = 0
           THEN old
           ELSE [old EXCEPT ![fields[FieldIndex(fields, Head(members)[1])].name] =
                   DecodeValue(fields[FieldIndex(fields, Head(members)[1])].type,
                               Head(members)[2], @)])

\* The members of an object, in order, into a map: each element is decoded
\* into a fresh zero value and stored under its key.
DecodeMap(elem, members, old) ==
    IF members = << >>
    THEN old
    ELSE DecodeMap(elem, Tail(members),
           MapSet(old, Head(members)[1],
                  DecodeValue(elem, Head(members)[2], Zero(elem))))

\* The items of an array into a slice that starts empty.
DecodeArray(elem, items) ==
    IF items = << >>
    THEN << >>
    ELSE << DecodeValue(elem, Head(items), Zero(elem)) >> \o
         DecodeArray(elem, Tail(items))

\* The error decoding JSON value j into a Go value of type t ends with:
\* that of the first value whose JSON type does not fit.
DecodeError(t, j) ==
    CASE j.k = "null" -> "nil"
      [] j.k = "str" -> IF t.kind = "string" THEN "nil" ELSE "UnmarshalTypeError"
      [] j.k = "num" ->
           IF t.kind = "uint64" /\ j.n >= 0 THEN "nil" ELSE "UnmarshalTypeError"
      [] j.k = "bool" -> IF t.kind = "bool" THEN "nil" ELSE "UnmarshalTypeError"
      [] j.k = "arr" ->
           IF t.kind = "slice" THEN ItemsError(t.elem, j.a) ELSE "UnmarshalTypeError"
      [] j.k = "obj" ->
           IF t.kind \in {"struct", "map"} THEN MembersError(t, j.m)
           ELSE "UnmarshalTypeError"

MembersError(t, members) ==
    IF members = << >>
    THEN "nil"
    ELSE FirstErr(
           IF t.kind = "map" THEN DecodeError(t.elem, Head(members)[2])
           ELSE IF FieldIndex(t.fields, Head(members)[1]) = 0 THEN "nil"
           ELSE DecodeError(t.fields[FieldIndex(t.fields, Head(members)[1])].type,
                            Head(members)[2]),
           MembersError(t, Tail(members)))

ItemsError(elem, items) ==
    IF items = << >>
    THEN "nil"
    ELSE FirstErr(DecodeError(elem, Head(items)), ItemsError(elem, Tail(items)))

\* Decoding with the decoder's error dropped.
DecodeIgnoringError(t, body, old) ==
    IF Parse(body).k = "invalid"
    THEN [v |-> old, err |-> "nil"]
    ELSE [v |-> DecodeValue(t, Parse(body), old), err |-> "nil"]

\* Decoder.Decode: a body that is not one JSON value fails before anything
\* is written; otherwise the value is unmarshalled into the target.
Decode(t, body, old) ==
    IF Parse(body).k = "invalid"
    THEN [v |-> old, err |-> Parse(body).err]
    ELSE [v |-> DecodeValue(t, Parse(body), old), err |-> DecodeError(t, Parse(body))]

-----------------------------------------------------------------------------
(* The state of one call.                                                  *)

VARIABLES
    baseURL,        \* Client.BaseURL
    callerLeft,     \* ms until the caller's context reaches its deadline, or NoDeadline
    callerCancellable, \* whether the caller's context can be cancelled by hand
    callerDone,     \* the caller's context is done
    op,             \* the public operation that was called
    ownLeft,        \* ms until the context.WithTimeout of the operation fires, or NoDeadline
    ownDone,        \* that timeout has fired
    pc,             \* where the call is
    tickLeft,       \* ms until the ticker's next tick, NoDeadline before NewTicker
    tickPending,    \* a tick is waiting in ticker.C (a channel of capacity 1)
    resp,           \* the local variable resp
    doErr,          \* the error of the last HTTPClient.Do is not nil
    target,         \* the variable ptr points to (info, up, mm)
    ret,            \* the first value the operation returns
    err,            \* the error the operation returns
    nreq,           \* requests issued so far, saturating at MaxReq
    seen,           \* the kinds of results HTTPClient.Do has returned so far
    ticks,          \* ticks the ticker has fired since NewTicker, saturating at MaxTicks
    deadline,       \* ms from entry to the deadline of the context fetchJSON got, or NoDeadline
    sentDone,       \* the context was done already when the last request was sent
    outstanding,    \* requests handed to HTTPClient.Do that have not come back
    open,           \* the kinds of responses whose Body has not been closed
    calls           \* the calls running side by side on the client (ConcSpec)

vars == << baseURL, callerLeft, callerCancellable, callerDone, op, ownLeft, ownDone,
           pc, tickLeft, tickPending, resp, doErr, target, ret, err,
           nreq, seen, ticks, deadline, sentDone, outstanding, open, calls >>

\* What the call keeps besides the locals of fetchJSON.
history == << ticks, deadline, sentDone, outstanding, open >>

\* The values of Client.BaseURL the call is tried with, and those among
\* them that url.Parse rejects once the endpoint is appended.
BaseURLs == {"http://127.0.0.1:2020", "http://[::1"}

MalformedBaseURLs == {"http://[::1"}

\* The deadlines the caller's context is tried with, in ms from the call.
CallerDeadlines == {0, DefaultHTTPRetryBackoff, 3 * DefaultHTTPRetryBackoff}

\* The contexts the caller passes: context.Background(), a context from
\* context.WithCancel, and contexts from context.WithTimeout.
CallerContexts ==
    {[deadline |-> NoDeadline, cancellable |-> FALSE],
     [deadline |-> NoDeadline, cancellable |-> TRUE]} \cup
    {[deadline |-> d, cancellable |-> FALSE] : d \in CallerDeadlines}

\* The statuses the endpoint answers with.
Statuses == {200, 400, 404, 500}

\* The bodies a status is tried with: an error page under 404, the document
\* of the endpoint under the other statuses from 400 on, every body under
\* the statuses below.
BodiesWith(o, status) ==
    IF status = 404 THEN {BodyNotFound}
    ELSE IF status >= 400 THEN {SchemaBody(o)}
    ELSE Bodies(o)

NilResp == [nil |-> TRUE, status |-> 0, body |-> ""]

Response(status, body) == [nil |-> FALSE, status |-> status, body |-> body]

NilError == [kind |-> "nil"]

Pending == [kind |-> "pending"]

\* fmt.Errorf("could not create request: %w", err)
RequestConstructionFailed == [kind |-> "RequestConstructionFailed"]

\* The timeout error without its argument.
TimeoutWithoutEndpoint(endpoint) == [kind |-> "Timeout", endpoint |-> ""]

\* fmt.Errorf("timeout while trying to reach: %s", endpoint)
Timeout(endpoint) == [kind |-> "Timeout", endpoint |-> endpoint]

\* fmt.Errorf("failed with status code %d", resp.StatusCode)
RequestFailed(status) == [kind |-> "RequestFailed", status |-> status]

\* fmt.Errorf("could not json unmarshal response: %w", err)
DecodeFailed(cause) == [kind |-> "DecodeFailed", cause |-> cause]

\* The error of http.NewRequestWithContext not looked at.
NewRequestErrIgnored(url, endpoint) == FALSE

\* http.NewRequestWithContext fails when BaseURL+endpoint does not parse.
NewRequestErr(url, endpoint) == url \in MalformedBaseURLs

\* The context fetchJSON selects on and the request carries: the caller's
\* context, for StorageMetrics wrapped in context.WithTimeout.
CtxDone == callerDone \/ ownDone

\* The loop condition with its test of the status inverted.
IsFinalInverted(e, r) == ~e /\ r.status = StatusNotFound

\* The loop condition without the test for 404.
IsFinalNo404Retry(e, r) == ~e

\* The loop condition without the test of the error.
IsFinalIgnoringErr(e, r) == r.status # StatusNotFound

\* The loop is left on a response that is no 404; a transport error and a
\* 404 go round again.
IsFinal(e, r) == ~e /\ r.status # StatusNotFound

\* The failure test with > for >=.
IsErrorStatusStrict(status) == status > StatusBadRequest

\* The accepted response is a failure from 400 on.
IsErrorStatus(status) == status >= StatusBadRequest

\* The kind of a result of HTTPClient.Do: the error of a context that is
\* done, a transport error, a 404, or a response that ends the loop.
Kind(e, r) ==
    IF e THEN (IF CtxDone THEN "canceled" ELSE "err")
    ELSE IF r.status = StatusNotFound THEN "404" ELSE "final"

\* What HTTPClient.Do(req) can return: an error and no response, or a
\* response, which has arrived with its body.  The request carries the
\* context: once the context is done the round trip ends with the context's
\* error, also when it was already under way.
DoResults ==
    {<<TRUE, NilResp>>} \cup
    IF CtxDone THEN {}
    ELSE UNION { {<<FALSE, Response(s, b)>> : b \in BodiesWith(op, s)} : s \in Statuses }

\* The earlier of two deadlines, either of which may be missing.
Earlier(a, b) ==
    IF a = NoDeadline THEN b ELSE IF b = NoDeadline THEN a ELSE Min(a, b)

\* The ticker's first tick, as if time.NewTicker put a tick in the channel.
FirstTickImmediately(d) == 0

\* time.NewTicker(d): the first tick comes after d.
FirstTickIn(d) == d

\* HTTPClient.Do as if it returned with its request still under way.
RoundTripStillOut(n) == n

\* HTTPClient.Do is a call: when it returns, its request has come back.
RoundTripDone(n) == n - 1

\* No call runs beside the one.
NoCalls == << >>

Init ==
    /\ baseURL \in BaseURLs
    /\ \E ctx \in CallerContexts :
         /\ callerLeft = ctx.deadline
         /\ callerCancellable = ctx.cancellable
    /\ callerDone = (callerLeft = 0)
    /\ op = "none"
    /\ ownLeft = NoDeadline
    /\ ownDone = FALSE
    /\ pc = "idle"
    /\ tickLeft = NoDeadline
    /\ tickPending = FALSE
    /\ resp = NilResp
    /\ doErr = FALSE
    /\ target = EmptyMap
    /\ ret = EmptyMap
    /\ err = Pending
    /\ nreq = 0
    /\ seen = {}
    /\ ticks = 0
    /\ deadline = NoDeadline
    /\ sentDone = FALSE
    /\ outstanding = 0
    /\ open = {}
    /\ calls = NoCalls

\* The orders in which `return info, c.fetchJSON(ctx, "/", &info)` may read
\* the operand info and make the call: the language leaves it unspecified.
OperandReads == {"before", "after"}

\* An operation is entered: its result variable is declared, and the
\* context it hands to fetchJSON is set up.
Enter(o) ==
    /\ pc = "idle"
    /\ op' = o
    /\ target' = Zero(ResultType(o))
    /\ ownLeft' = OwnTimeout(o)
    /\ pc' = "fetchJSON"
    /\ deadline' = Earlier(callerLeft, OwnTimeout(o))
    /\ UNCHANGED << baseURL, callerLeft, callerCancellable, callerDone, ownDone,
                    tickLeft, tickPending, resp, doErr, ret, err, nreq, seen,
                    ticks, sentDone, outstanding, open, calls >>

BuildInfo == Enter("BuildInfo")

UpTime == Enter("UpTime")

Metrics == Enter("Metrics")

StorageMetrics == Enter("StorageMetrics")

\* fetchJSON, lines 111-114: the request cannot be built.
NewRequestFails ==
    /\ pc = "fetchJSON"
    /\ NewRequestErr(baseURL, Endpoint(op))
    /\ err' = RequestConstructionFailed
    /\ pc' = "return"
    /\ UNCHANGED << baseURL, callerLeft, callerCancellable, callerDone, op, ownLeft,
                    ownDone, tickLeft, tickPending, resp, doErr, target,
                    ret, nreq, seen,
                    history, calls >>

\* fetchJSON, lines 111-116: the request is built and the ticker started.
NewTicker ==
    /\ pc = "fetchJSON"
    /\ ~NewRequestErr(baseURL, Endpoint(op))
    /\ tickLeft' = FirstTickIn(DefaultHTTPRetryBackoff)
    /\ tickPending' = (FirstTickIn(DefaultHTTPRetryBackoff) <= 0)
    /\ pc' = "select"
    /\ UNCHANGED << baseURL, callerLeft, callerCancellable, callerDone, op, ownLeft,
                    ownDone, resp, doErr, target, ret, err, nreq, seen,
                    history, calls >>

\* select, case <-ctx.Done().
SelectDone ==
    /\ pc = "select"
    /\ CtxDone
    /\ err' = Timeout(Endpoint(op))
    /\ pc' = "return"
    /\ UNCHANGED << baseURL, callerLeft, callerCancellable, callerDone, op, ownLeft,
                    ownDone, tickLeft, tickPending, resp, doErr, target,
                    ret, nreq, seen,
                    history, calls >>

\* select, case <-ticker.C: the tick is taken and the request sent.
SelectTick ==
    /\ pc = "select"
    /\ tickPending
    /\ tickPending' = FALSE
    /\ nreq' = Min(nreq + 1, MaxReq)
    /\ pc' = "Do"
    /\ sentDone' = CtxDone
    /\ outstanding' = outstanding + 1
    /\ UNCHANGED << baseURL, callerLeft, callerCancellable, callerDone, op, ownLeft,
                    ownDone, tickLeft, resp, doErr, target, ret, err,
                    seen,
                    ticks, deadline, open, calls >>

\* HTTPClient.Do returns, and the loop is left or goes round again.
DoReturns ==
    /\ pc = "Do"
    /\ \E result \in DoResults :
         /\ doErr' = result[1]
         /\ resp' = result[2]
         /\ seen' = seen \cup {Kind(result[1], result[2])}
         /\ pc' = IF IsFinal(result[1], result[2]) THEN "final" ELSE "select"
         /\ open' = IF result[1] THEN open ELSE open \cup {Kind(result[1], result[2])}
    /\ outstanding' = RoundTripDone(outstanding)
    /\ UNCHANGED << baseURL, callerLeft, callerCancellable, callerDone, op, ownLeft,
                    ownDone, tickLeft, tickPending, target, ret, err,
                    nreq,
                    ticks, deadline, sentDone, calls >>

\* Lines 133-135: the accepted response is a failure.
StatusFailed ==
    /\ pc = "final"
    /\ IsErrorStatus(resp.status)
    /\ err' = RequestFailed(resp.status)
    /\ pc' = "return"
    /\ open' = open \ {"final"}
    /\ UNCHANGED << baseURL, callerLeft, callerCancellable, callerDone, op, ownLeft,
                    ownDone, tickLeft, tickPending, resp, doErr, target,
                    ret, nreq, seen,
                    ticks, deadline, sentDone, outstanding, calls >>

\* Lines 136-141: the body of the accepted response is decoded into *ptr.
DecodeBody ==
    /\ pc = "final"
    /\ ~IsErrorStatus(resp.status)
    /\ target' = Decode(ResultType(op), resp.body, target).v
    /\ err' = IF Decode(ResultType(op), resp.body, target).err # "nil"
              THEN DecodeFailed(Decode(ResultType(op), resp.body, target).err)
              ELSE NilError
    /\ pc' = "return"
    /\ open' = open \ {"final"}
    /\ UNCHANGED << baseURL, callerLeft, callerCancellable, callerDone, op, ownLeft,
                    ownDone, tickLeft, tickPending, resp, doErr, ret,
                    nreq, seen,
                    ticks, deadline, sentDone, outstanding, calls >>

\* The return statement of the operation completes.  Its first operand is
\* the result variable, read before the call, when nothing had been decoded
\* into it yet, or after it.
Return ==
    /\ pc = "return"
    /\ \E order \in OperandReads :
         ret' = IF order = "before" THEN Zero(ResultType(op)) ELSE target
    /\ pc' = "done"
    /\ UNCHANGED << baseURL, callerLeft, callerCancellable, callerDone, op, ownLeft,
                    ownDone, tickLeft, tickPending, resp, doErr, target,
                    err, nreq, seen,
                    history, calls >>

\* A timer after Quantum more milliseconds.
CountDown(left) ==
    IF left = NoDeadline THEN NoDeadline
    ELSE IF left > Quantum THEN left - Quantum ELSE 0

\* Time passes while the call waits for the round trip, or in the select
\* with no case ready (a select with a ready case does not block): the
\* ticker ticks (a tick is dropped when one is still waiting) and the
\* deadlines are reached.
Advance ==
    /\ \/ pc = "Do"
       \/ pc = "select" /\ ~CtxDone /\ ~tickPending
    /\ tickLeft' = IF tickLeft > Quantum THEN tickLeft - Quantum
                   ELSE tickLeft - Quantum + DefaultHTTPRetryBackoff
    /\ tickPending' = (tickPending \/ tickLeft <= Quantum)
    /\ callerLeft' = CountDown(callerLeft)
    /\ callerDone' = (callerDone \/ callerLeft' = 0)
    /\ ownLeft' = CountDown(ownLeft)
    /\ ownDone' = (ownDone \/ ownLeft' = 0)
    /\ ticks' = IF tickLeft <= Quantum THEN Min(ticks + 1, MaxTicks) ELSE ticks
    /\ UNCHANGED << baseURL, callerCancellable, op, pc, resp, doErr,
                    target, ret, err, nreq, seen,
                    deadline, sentDone, outstanding, open, calls >>

\* The caller cancels its context.
CallerCancel ==
    /\ callerCancellable
    /\ ~callerDone
    /\ pc \in {"idle", "select", "Do"}
    /\ callerDone' = TRUE
    /\ UNCHANGED << baseURL, callerLeft, callerCancellable, op, ownLeft, ownDone,
                    pc, tickLeft, tickPending, resp, doErr, target, ret,
                    err, nreq, seen,
                    history, calls >>

Next ==
    \/ BuildInfo
    \/ UpTime
    \/ Metrics
    \/ StorageMetrics
    \/ NewRequestFails
    \/ NewTicker
    \/ SelectDone
    \/ SelectTick
    \/ DoReturns
    \/ StatusFailed
    \/ DecodeBody
    \/ Return
    \/ Advance
    \/ CallerCancel

Spec == Init /\ [][Next]_vars

\* The call is made and runs: each step of the program is taken when it
\* stays possible, time passes, a round trip ends, and the select, which
\* picks among its ready cases at random, does not pass over a context that
\* is done for ever.
Fairness ==
    /\ WF_vars(BuildInfo \/ UpTime \/ Metrics \/ StorageMetrics)
    /\ WF_vars(NewRequestFails)
    /\ WF_vars(NewTicker)
    /\ SF_vars(SelectDone)
    /\ WF_vars(SelectTick)
    /\ WF_vars(DoReturns)
    /\ WF_vars(Return)
    /\ WF_vars(Advance)

FairSpec == Spec /\ Fairness

-----------------------------------------------------------------------------
(* What the documents say, written out by hand: the values a caller is to  *)
(* get from the bodies that are valid JSON.                                *)

Document(o) ==
    CASE o = "BuildInfo" ->
           [FluentBit |-> [Version |-> "1.8.0", Edition |-> "Community",
                           Flags |-> <<"FLB_HAVE_TLS", "FLB_HAVE_HTTP_SERVER">>]]
      [] o = "UpTime" -> [UpTimeSec |-> 5, UpTimeHr |-> "5s"]
      [] o = "Metrics" ->
           [Input |-> ("cpu.0" :> [Records |-> 10, Bytes |-> 200]),
            Output |-> ("stdout.0" :> [ProcRecords |-> 10, ProcBytes |-> 200,
                                       Errors |-> 0, Retries |-> 0,
                                       RetriesFailed |-> 0])]
      [] o = "StorageMetrics" ->
           [StorageLayer |->
              [Chunks |-> [TotalChunks |-> 3, MemChunks |-> 2, FsChunks |-> 1,
                           FsChunksUp |-> 1, FsChunksDown |-> 0]],
            InputChunks |->
              ("cpu.0" :> [Status |-> [Overlimit |-> TRUE, MemSize |-> "1.2K",
                                       MemLimit |-> "0b"],
                           Chunks |-> [Total |-> 3, Up |-> 2, Down |-> 1, Busy |-> 1,
                                       BusySize |-> "1.2K"]])]

\* The bodies of an endpoint that are valid JSON for its result type.
ValidBodies(o) ==
    {SchemaBody(o), BodyEmptyObject} \cup
    (IF o = "UpTime" THEN {BodyUpTimeFolded} ELSE {})

\* The value a valid body stands for.
Sent(o, body) ==
    CASE body = SchemaBody(o) -> Document(o)
      [] body = BodyUpTimeFolded -> [UpTimeSec |-> 7, UpTimeHr |-> "7s"]
      [] body = BodyEmptyObject ->
           CASE o = "BuildInfo" ->
                  [FluentBit |-> [Version |-> "", Edition |-> "", Flags |-> << >>]]
             [] o = "UpTime" -> [UpTimeSec |-> 0, UpTimeHr |-> ""]
             [] o = "Metrics" -> [Input |-> << >>, Output |-> << >>]
             [] o = "StorageMetrics" ->
                  [StorageLayer |->
                     [Chunks |-> [TotalChunks |-> 0, MemChunks |-> 0, FsChunks |-> 0,
                                  FsChunksUp |-> 0, FsChunksDown |-> 0]],
                   InputChunks |-> << >>]

\* The bodies of an endpoint that are not JSON, or JSON of another shape.
UndecodableBodies(o) == Bodies(o) \ ValidBodies(o)

\* The loop has been left: the call is at or past line 131.
PastLoop == pc \in {"final", "return", "done"}

\* The call has returned from fetchJSON.
Returned == pc \in {"return", "done"}

\* HTTPClient.Do last returned a response, with this test on its status.
GotResponse == ~doErr /\ ~resp.nil

-----------------------------------------------------------------------------
(* C1.  If the endpoint answers 404 to the first N attempts (N >= 0) and    *)
(* then 200 with valid JSON, the call leaves the loop on that response,    *)
(* succeeds with the value that body stands for, and issues no request     *)
(* after it.  (A response is only received while the context is not done.) *)

After404sA200 ==
    /\ GotResponse
    /\ resp.status = 200
    /\ resp.body \in ValidBodies(op)
    /\ seen \subseteq {"404", "final"}

C1_FirstNon404Accepted ==
    /\ [](After404sA200 =>
            /\ PastLoop
            /\ Returned => (err = [kind |-> "nil"] /\ target = Sent(op, resp.body)))
    /\ [][After404sA200 => (pc' # "Do" /\ nreq' = nreq)]_vars

C1_Witness ==
    /\ pc = "done"
    /\ After404sA200
    /\ "404" \in seen
    /\ err = [kind |-> "nil"]
    /\ resp.body = SchemaBody(op)
    /\ target = Document(op)

-----------------------------------------------------------------------------
(* C2.  If the response received is 500, or any status from 400 on other   *)
(* than 404, the call leaves the loop on it and fails with RequestFailed   *)
(* carrying that status; it sends no further request and no time passes    *)
(* before it returns, so it does not wait for the deadline.                *)

GotFailureStatus == GotResponse /\ resp.status >= 400 /\ resp.status # 404

C2_FailsImmediately ==
    /\ [](GotFailureStatus =>
            /\ PastLoop
            /\ Returned => err = [kind |-> "RequestFailed", status |-> resp.status])
    /\ [][GotFailureStatus =>
            /\ pc' \notin {"select", "Do"}
            /\ nreq' = nreq
            /\ << tickLeft', callerLeft', ownLeft' >> = << tickLeft, callerLeft, ownLeft >>]_vars

C2_Witness ==
    /\ pc = "done"
    /\ GotFailureStatus
    /\ resp.status = 500
    /\ seen = {"final"}
    /\ nreq = 1
    /\ ~CtxDone
    /\ err = [kind |-> "RequestFailed", status |-> 500]

-----------------------------------------------------------------------------
(* C3.  If a response with a status below 400 carries a body that does not *)
(* decode as the result type, the call fails with DecodeFailed and does    *)
(* not retry: no request follows that response, also when the context is   *)
(* not done.                                                               *)

GotUndecodable ==
    GotResponse /\ resp.status < 400 /\ resp.body \in UndecodableBodies(op)

C3_DecodeFailureIsFinal ==
    /\ [](GotUndecodable =>
            /\ PastLoop
            /\ Returned => err.kind = "DecodeFailed")
    /\ [][GotUndecodable => (pc' \notin {"select", "Do"} /\ nreq' = nreq)]_vars

C3_Witness ==
    /\ pc = "done"
    /\ GotUndecodable
    /\ ~CtxDone
    /\ err.kind = "DecodeFailed"
    /\ err.cause = "UnmarshalTypeError"

-----------------------------------------------------------------------------
(* C4.  If the endpoint answers every request with 404 and the call has a  *)
(* deadline, the call fails with Timeout once the deadline has passed; it  *)
(* never returns success, RequestFailed or DecodeFailed in that run.       *)
(* (Once the context is done a request ends with the context's error and   *)
(* does not reach the endpoint.)                                           *)

Only404 == seen \subseteq {"404", "canceled"}

Constructible == baseURL = "http://127.0.0.1:2020"

NoDeadlineArmed == callerLeft = NoDeadline /\ ownLeft = NoDeadline

TimedOut == pc = "done" /\ err.kind = "Timeout"

C4_Only404EndsInTimeout ==
    /\ [](Only404 => err.kind \notin {"nil", "RequestFailed", "DecodeFailed"})
    /\ Constructible => ([]NoDeadlineArmed \/ <>(~Only404 \/ TimedOut))

C4_Witness ==
    /\ TimedOut
    /\ seen = {"404"}
    /\ nreq >= 2
    /\ callerLeft = 0
    /\ err = [kind |-> "Timeout", endpoint |-> "/api/v1/uptime"]

-----------------------------------------------------------------------------
(* C5.  A transport error on an attempt is treated as a 404 is: the loop   *)
(* goes back to wait for the next tick, the error is not returned, and a   *)
(* call whose attempts all end in an error can only end with Timeout.      *)

OnlyErrors == nreq >= 1 /\ seen \subseteq {"err", "canceled"}

C5_TransportErrorRetried ==
    /\ [](doErr => pc # "final")
    /\ []((doErr /\ Returned) => err.kind = "Timeout")
    /\ []((OnlyErrors /\ Returned) => err.kind = "Timeout")
    /\ [][(pc = "Do" /\ pc' # "Do" /\ doErr') =>
            (pc' = "select" /\ err' = err /\ target' = target)]_vars
    /\ [][(pc = "select" /\ doErr /\ pc' = "Do") => (tickPending /\ ~tickPending')]_vars

C5_Witness ==
    /\ TimedOut
    /\ seen = {"err"}
    /\ nreq >= 2
    /\ doErr

-----------------------------------------------------------------------------
(* C6.  StorageMetrics bounds its fetch by the earlier of the caller's     *)
(* deadline and 3 seconds after entry: its context is done as soon as      *)
(* either has passed, and also under a caller's context that never fires   *)
(* and an endpoint that only answers 404 or fails, the call returns, with  *)
(* Timeout, provided each attempt completes.                               *)

NoFinalResponse == "final" \notin seen

C6_StorageMetricsBounded ==
    /\ [](op = "StorageMetrics" =>
            /\ ownLeft \in 0..3000
            /\ (ownLeft = 0 \/ callerLeft = 0) => CtxDone)
    /\ []((op = "StorageMetrics" /\ Constructible /\ NoFinalResponse /\ Returned) =>
            err.kind = "Timeout")
    /\ (op = "StorageMetrics") ~> (pc = "done" \/ ~NoFinalResponse)

C6_Witness ==
    /\ TimedOut
    /\ op = "StorageMetrics"
    /\ callerLeft = NoDeadline
    /\ ~callerCancellable
    /\ ~callerDone
    /\ ownLeft = 0
    /\ seen = {"404", "err"}

-----------------------------------------------------------------------------
(* C7.  BuildInfo, UpTime and Metrics set no deadline of their own: they   *)
(* return Timeout only when the caller's context is done, and under a      *)
(* caller's context that never fires and an endpoint that only answers 404 *)
(* or fails, the call does not return and goes on sending requests.        *)

OtherOps == {"BuildInfo", "UpTime", "Metrics"}

C7_NoOwnDeadline ==
    /\ [](op \in OtherOps => (ownLeft = NoDeadline /\ ~ownDone))
    /\ []((op \in OtherOps /\ Constructible /\ ~callerDone /\ NoFinalResponse) =>
            ~Returned)
    /\ ([]<>(pc = "Do") \/ <>(CtxDone \/ ~NoFinalResponse \/ ~Constructible))

C7_Witness ==
    /\ op \in OtherOps
    /\ pc = "Do"
    /\ callerLeft = NoDeadline
    /\ ~callerCancellable
    /\ nreq >= 2
    /\ seen = {"404", "err"}

-----------------------------------------------------------------------------
(* C8.  Whenever the context is done while the call is in the loop, no     *)
(* final response having been received, the call leaves the loop and ends  *)
(* with Timeout naming the endpoint.  (The select picks among its ready    *)
(* cases at random, so it does not pass over the done context for ever.)   *)

InLoop == pc \in {"select", "Do"}

C8_CancellationEndsInTimeout ==
    (CtxDone /\ InLoop) ~>
        (pc = "done" /\ err = [kind |-> "Timeout", endpoint |-> Endpoint(op)])

C8_Witness ==
    /\ TimedOut
    /\ "canceled" \in seen
    /\ op = "StorageMetrics"
    /\ err = [kind |-> "Timeout", endpoint |-> "/api/v1/storage"]

-----------------------------------------------------------------------------
(* C9.  For each of the four operations, when the accepted response is     *)
(* valid JSON matching the documented schema, the value returned with the  *)
(* nil error has all fields as sent: it is the decoded document, not the   *)
(* zero value the result variable held before the fetch.                   *)

-----------------------------------------------------------------------------
(* C10.  When the request cannot be built from the base address and the    *)
(* path, the call returns RequestConstructionFailed at once: no ticker is  *)
(* started, the loop is not entered and no request is sent.                *)

C10_ConstructionFailureImmediate ==
    (baseURL = "http://[::1" /\ pc # "idle") =>
        /\ pc \in {"fetchJSON", "return", "done"}
        /\ nreq = 0
        /\ seen = {}
        /\ tickLeft = NoDeadline
        /\ Returned => err = [kind |-> "RequestConstructionFailed"]

C10_Witness ==
    /\ pc = "done"
    /\ baseURL = "http://[::1"
    /\ ~CtxDone
    /\ nreq = 0
    /\ err = [kind |-> "RequestConstructionFailed"]

-----------------------------------------------------------------------------
(* C11.  The outcome of a completed call follows from the response the     *)
(* loop was left on: Timeout only when no response other than a 404 was    *)
(* ever received; RequestFailed only on a response with a status from 400  *)
(* on, carrying that status, which is never 404; DecodeFailed only on a    *)
(* response with a status below 400; success only on a response with a     *)
(* status below 400 whose body decoded.                                    *)

FinalResponse == GotResponse /\ "final" \in seen /\ resp.status # 404

C11_OutcomeFollowsFinalResponse ==
    Returned =>
        /\ err.kind \in {"Timeout", "RequestFailed", "DecodeFailed", "nil",
                          "RequestConstructionFailed"}
        /\ err.kind = "Timeout" => "final" \notin seen
        /\ err.kind = "RequestConstructionFailed" => seen = {}
        /\ err.kind = "RequestFailed" =>
              /\ FinalResponse
              /\ resp.status >= 400
              /\ err.status = resp.status
              /\ err.status # 404
        /\ err.kind = "DecodeFailed" =>
              /\ FinalResponse
              /\ resp.status < 400
              /\ resp.body \in UndecodableBodies(op)
        /\ err.kind = "nil" =>
              /\ FinalResponse
              /\ resp.status < 400
              /\ resp.body \in ValidBodies(op)
              /\ target = Sent(op, resp.body)

C11_Witness ==
    /\ pc = "done"
    /\ err = [kind |-> "RequestFailed", status |-> 400]
    /\ seen = {"404", "err", "final"}
    /\ resp.status = 400

-----------------------------------------------------------------------------
(* Calls side by side.  Two goroutines call operations on one Client.  The *)
(* Client (BaseURL, HTTPClient) is the only thing they have in common;     *)
(* each call has the locals of its operation and of fetchJSON (req, resp,  *)
(* err, ticker), the variable ptr points to, and the context it was given. *)
(* Time is not measured here: a polling interval passes, a context fires.  *)

CallIds == {1, 2}

Other(i) == 3 - i

\* The operations called side by side.
ConcOps == {"BuildInfo", "UpTime"}

NoRequest == [endpoint |-> "", ctx |-> 0]

\* A goroutine that has not called yet.
IdleCall ==
    [op |-> "none", pc |-> "idle", ctxDone |-> FALSE, req |-> NoRequest,
     tickPending |-> FALSE, resp |-> NilResp, doErr |-> FALSE,
     target |-> EmptyMap, err |-> Pending]

\* The operation an endpoint belongs to.
EndpointOp(endpoint) == CHOOSE o \in Ops : Endpoint(o) = endpoint

\* The request of the other call handed to HTTPClient.Do.
RequestOfOther(i, cs) == cs[Other(i)].req

\* The request call i hands to HTTPClient.Do: its own local req.
RequestOf(i, cs) == cs[i].req

\* What HTTPClient.Do returns for a request: an error, or, while the
\* context the request was built with is not done, what the endpoint of the
\* request answers.
RoundTrips(req, cs) ==
    {<<TRUE, NilResp>>} \cup
    IF req = NoRequest \/ cs[req.ctx].ctxDone THEN {}
    ELSE UNION { {<<FALSE, Response(st, b)>> : b \in BodiesWith(EndpointOp(req.endpoint), st)} :
                 st \in Statuses }

\* The variables of the single call, which stand still here.
single == << callerLeft, callerCancellable, callerDone, op, ownLeft, ownDone,
             pc, tickLeft, tickPending, resp, doErr, target, ret, err,
             nreq, seen, history >>

ConcInit ==
    /\ baseURL \in BaseURLs
    /\ callerLeft = NoDeadline
    /\ callerCancellable = FALSE
    /\ callerDone = FALSE
    /\ op = "none"
    /\ ownLeft = NoDeadline
    /\ ownDone = FALSE
    /\ pc = "idle"
    /\ tickLeft = NoDeadline
    /\ tickPending = FALSE
    /\ resp = NilResp
    /\ doErr = FALSE
    /\ target = EmptyMap
    /\ ret = EmptyMap
    /\ err = Pending
    /\ nreq = 0
    /\ seen = {}
    /\ ticks = 0
    /\ deadline = NoDeadline
    /\ sentDone = FALSE
    /\ outstanding = 0
    /\ open = {}
    /\ calls = [i \in CallIds |-> IdleCall]

\* Call i enters operation o.
ConcEnter(i, o) ==
    /\ calls[i].pc = "idle"
    /\ calls' = [calls EXCEPT ![i].op = o,
                              ![i].target = Zero(ResultType(o)),
                              ![i].pc = "fetchJSON"]
    /\ UNCHANGED << baseURL, single >>

\* Lines 111-114 in call i.
ConcNewRequestFails(i) ==
    /\ calls[i].pc = "fetchJSON"
    /\ NewRequestErr(baseURL, Endpoint(calls[i].op))
    /\ calls' = [calls EXCEPT ![i].err = RequestConstructionFailed,
                              ![i].pc = "done"]
    /\ UNCHANGED << baseURL, single >>

\* Lines 111-116 in call i: req is built with the context of the call.
ConcNewTicker(i) ==
    /\ calls[i].pc = "fetchJSON"
    /\ ~NewRequestErr(baseURL, Endpoint(calls[i].op))
    /\ calls' = [calls EXCEPT ![i].req = [endpoint |-> Endpoint(calls[i].op), ctx |-> i],
                              ![i].tickPending = FALSE,
                              ![i].pc = "select"]
    /\ UNCHANGED << baseURL, single >>

\* select in call i, case <-ctx.Done().
ConcSelectDone(i) ==
    /\ calls[i].pc = "select"
    /\ calls[i].ctxDone
    /\ calls' = [calls EXCEPT ![i].err = Timeout(Endpoint(calls[i].op)),
                              ![i].pc = "done"]
    /\ UNCHANGED << baseURL, single >>

\* select in call i, case <-ticker.C.
ConcSelectTick(i) ==
    /\ calls[i].pc = "select"
    /\ calls[i].tickPending
    /\ calls' = [calls EXCEPT ![i].tickPending = FALSE, ![i].pc = "Do"]
    /\ UNCHANGED << baseURL, single >>

\* HTTPClient.Do returns in call i.
ConcDoReturns(i) ==
    /\ calls[i].pc = "Do"
    /\ \E result \in RoundTrips(RequestOf(i, calls), calls) :
         calls' = [calls EXCEPT ![i].doErr = result[1],
                                ![i].resp = result[2],
                                ![i].pc = IF IsFinal(result[1], result[2])
                                          THEN "final" ELSE "select"]
    /\ UNCHANGED << baseURL, single >>

\* Lines 133-135 in call i.
ConcStatusFailed(i) ==
    /\ calls[i].pc = "final"
    /\ IsErrorStatus(calls[i].resp.status)
    /\ calls' = [calls EXCEPT ![i].err = RequestFailed(calls[i].resp.status),
                              ![i].pc = "done"]
    /\ UNCHANGED << baseURL, single >>

\* Lines 136-141 in call i.
ConcDecodeBody(i) ==
    /\ calls[i].pc = "final"
    /\ ~IsErrorStatus(calls[i].resp.status)
    /\ calls' =
         [calls EXCEPT
            ![i].target = Decode(ResultType(calls[i].op), calls[i].resp.body,
                                 calls[i].target).v,
            ![i].err = IF Decode(ResultType(calls[i].op), calls[i].resp.body,
                                 calls[i].target).err # "nil"
                       THEN DecodeFailed(Decode(ResultType(calls[i].op),
                                                calls[i].resp.body,
                                                calls[i].target).err)
                       ELSE NilError,
            ![i].pc = "done"]
    /\ UNCHANGED << baseURL, single >>

\* A polling interval passes: every ticker that runs ticks, and a tick is
\* dropped where one is still waiting.
ConcTick ==
    /\ \E i \in CallIds : calls[i].pc \in {"select", "Do"}
    /\ calls' = [i \in CallIds |->
                   IF calls[i].pc \in {"select", "Do"}
                   THEN [calls[i] EXCEPT !.tickPending = TRUE]
                   ELSE calls[i]]
    /\ UNCHANGED << baseURL, single >>

\* The context call i was given is done: its deadline is reached or it is
\* cancelled.
ConcCtxFires(i) ==
    /\ ~calls[i].ctxDone
    /\ calls[i].pc \in {"idle", "select", "Do"}
    /\ calls' = [calls EXCEPT ![i].ctxDone = TRUE]
    /\ UNCHANGED << baseURL, single >>

ConcNext ==
    \/ \E i \in CallIds, o \in ConcOps : ConcEnter(i, o)
    \/ \E i \in CallIds : ConcNewRequestFails(i)
    \/ \E i \in CallIds : ConcNewTicker(i)
    \/ \E i \in CallIds : ConcSelectDone(i)
    \/ \E i \in CallIds : ConcSelectTick(i)
    \/ \E i \in CallIds : ConcDoReturns(i)
    \/ \E i \in CallIds : ConcStatusFailed(i)
    \/ \E i \in CallIds : ConcDecodeBody(i)
    \/ ConcTick
    \/ \E i \in CallIds : ConcCtxFires(i)

ConcSpec == ConcInit /\ [][ConcNext]_vars

-----------------------------------------------------------------------------
(* C12.  Calls running side by side on one client are independent, under   *)
(* every interleaving: no call writes the client; a step of one call       *)
(* leaves the other call's locals, result variable and outcome as they     *)
(* were; every response a call gets answers its own request; and its       *)
(* outcome follows from its own last response and its own context alone    *)
(* (Timeout only when its own context is done).                            *)

OwnOutcome(c) ==
    /\ ~c.resp.nil => c.resp.body \in BodiesWith(c.op, c.resp.status)
    /\ c.pc = "done" =>
          /\ c.err.kind = "Timeout" =>
                (c.ctxDone /\ c.err.endpoint = Endpoint(c.op))
          /\ c.err.kind = "RequestFailed" =>
                (~c.doErr /\ c.err.status = c.resp.status /\ c.resp.status >= 400)
          /\ c.err.kind = "DecodeFailed" =>
                (~c.doErr /\ c.resp.body \in UndecodableBodies(c.op))
          /\ c.err.kind = "nil" =>
                (~c.doErr /\ c.resp.body \in ValidBodies(c.op)
                          /\ c.target = Sent(c.op, c.resp.body))

C12_CallsIndependent ==
    /\ [][/\ baseURL' = baseURL
          /\ \A i \in CallIds :
               calls'[i].pc # calls[i].pc => calls'[Other(i)] = calls[Other(i)]]_vars
    /\ [](\A i \in CallIds : OwnOutcome(calls[i]))

C12_Witness ==
    /\ calls[1].op = "BuildInfo"
    /\ calls[1].pc = "done"
    /\ calls[1].err = [kind |-> "nil"]
    /\ calls[1].target = Document("BuildInfo")
    /\ ~calls[1].ctxDone
    /\ calls[2].op = "UpTime"
    /\ calls[2].pc = "Do"
    /\ calls[2].ctxDone
    /\ calls[2].resp.status = 404

-----------------------------------------------------------------------------
(* C13.  If the endpoint answers 404 throughout and the call ends with     *)
(* Timeout at its deadline, the call has made no fewer than                *)
(* floor(deadline / interval) attempts, the interval being the 150 ms of   *)
(* the ticker (the count is compared up to where the counter saturates).   *)

C13_AtLeastFloorAttempts ==
    (TimedOut /\ seen \subseteq {"404"} /\ deadline # NoDeadline /\ ~callerCancellable) =>
        nreq >= Min(deadline \div DefaultHTTPRetryBackoff, MaxReq)

-----------------------------------------------------------------------------
(* C14.  A request that was sent before the context was done and is under  *)
(* way when the context fires is not aborted by it: when HTTPClient.Do     *)
(* returns, it does not return the error of the context, and what it       *)
(* returns is classified as the result of any attempt is.                  *)

C14_InFlightRunsToCompletion ==
    [][(pc = "Do" /\ ~sentDone /\ CtxDone /\ pc' # "Do") =>
          Kind(doErr', resp') # "canceled"]_vars

-----------------------------------------------------------------------------
(* C15.  Once the context is done and the loop is at its select, the loop  *)
(* starts no further attempt: the step it takes from there is the return   *)
(* of Timeout, also when a tick is waiting in the ticker's channel.        *)

C15_NoAttemptOnceDone ==
    [][(pc = "select" /\ CtxDone /\ pc' # pc) =>
          (pc' = "return" /\ err' = Timeout(Endpoint(op)) /\ nreq' = nreq)]_vars

-----------------------------------------------------------------------------
(* C16.  No request is issued before the ticker has ticked once, that is   *)
(* before the first polling interval since time.NewTicker has gone by; and *)
(* when the context is done at entry, or fires before that first tick, the *)
(* loop takes no step but the return of Timeout, and the call ends with    *)
(* Timeout having issued no request.                                       *)

DoneBeforeFirstTick == pc = "select" /\ CtxDone /\ ticks = 0

C16_NoRequestBeforeFirstTick ==
    /\ [](ticks = 0 => (nreq = 0 /\ pc # "Do" /\ ~tickPending /\ seen = {}))
    /\ [][(DoneBeforeFirstTick /\ pc' # pc) =>
            (pc' = "return" /\ err' = Timeout(Endpoint(op)) /\ nreq' = 0)]_vars
    /\ DoneBeforeFirstTick ~>
            (pc = "done" /\ err.kind = "Timeout" /\ nreq = 0 /\ ticks = 0)

C16_Witness ==
    /\ TimedOut
    /\ deadline = 0
    /\ nreq = 0
    /\ ticks = 0
    /\ seen = {}

-----------------------------------------------------------------------------
(* C17.  The loop of one call is sequential: at most one of its requests   *)
(* is outstanding in any state, and a request is started only from the     *)
(* select with none outstanding, after the attempt before it has come back *)
(* with a response or an error.                                            *)

C17_LoopSequential ==
    /\ [](outstanding \in {0, 1} /\ (outstanding = 1 <=> pc = "Do"))
    /\ []((pc = "select" /\ nreq >= 1) => (doErr \/ ~resp.nil) /\ seen # {})
    /\ [][(outstanding' > outstanding) =>
            /\ outstanding = 0
            /\ pc = "select"
            /\ nreq = 0 \/ doErr \/ ~resp.nil]_vars

C17_Witness ==
    /\ pc = "Do"
    /\ outstanding = 1
    /\ nreq = 2
    /\ seen = {"404"}
    /\ ~doErr
    /\ resp.status = 404

-----------------------------------------------------------------------------
(* C18.  When fetchJSON has returned, by whatever outcome, the Body of     *)
(* every response it received has been closed, those of the 404 responses  *)
(* it went round again on included.                                        *)

C18_AllBodiesClosed == Returned => open = {}

-----------------------------------------------------------------------------
(* C19.  When an operation ends with Timeout, RequestFailed or             *)
(* RequestConstructionFailed, the variable the result is decoded into was  *)
(* never written: it holds, and the operation returns, the zero value of   *)
(* the result type; the variable is written only by the decoding of a      *)
(* response with a status below 400.                                       *)

ZeroValue(o) == Sent(o, BodyEmptyObject)

FailedUndecoded ==
    err.kind \in {"Timeout", "RequestFailed", "RequestConstructionFailed"}

C19_TargetUntouchedOnFailure ==
    /\ []((Returned /\ FailedUndecoded) =>
            /\ target = ZeroValue(op)
            /\ pc = "done" => ret = ZeroValue(op))
    /\ [][(pc # "idle" /\ target' # target) =>
            (pc = "final" /\ resp.status < 400 /\ err'.kind \in {"nil", "DecodeFailed"})]_vars

C19_Witness ==
    /\ pc = "done"
    /\ op = "Metrics"
    /\ err = [kind |-> "RequestFailed", status |-> 500]
    /\ resp.body = BodyMetrics
    /\ "404" \in seen
    /\ ret = [Input |-> << >>, Output |-> << >>]

-----------------------------------------------------------------------------
(* C20.  The polling rate is fixed, with no burst and no growing backoff:  *)
(* at every point of a call the requests issued so far are at most the     *)
(* ticks the ticker has fired since the loop was entered (compared up to   *)
(* where the counters saturate), each request takes one tick out of the    *)
(* channel, and the next tick is never more than one interval away.        *)

C20_RequestsAtMostTicks ==
    /\ [](nreq <= ticks \/ ticks = MaxTicks)
    /\ [](pc \in {"select", "Do"} => tickLeft \in 1..DefaultHTTPRetryBackoff)
    /\ [][nreq' # nreq => (nreq' = nreq + 1 /\ tickPending /\ ~tickPending')]_vars

C20_Witness ==
    /\ pc = "select"
    /\ nreq = 1
    /\ ticks = 3
    /\ seen = {"404"}
    /\ tickPending
    /\ ~CtxDone

====
